---- MODULE Spec2Model ----
(***************************************************************************)
(* A model of the LAP project template: the file utilities                 *)
(* (src/modules/file_utils.py), the analysis workflow stages               *)
(* (src/workflows/analysis_workflow.py) and the report stage               *)
(* (src/workflows/result_workflow.py).                                     *)
(*                                                                         *)
(* The file system is a set of existing directories and a map from paths   *)
(* to file contents.  Delimited text is a sequence of lines, a line a      *)
(* sequence of characters; pandas' to_csv and read_csv are modelled by     *)
(* what they do to that text (joining, quoting, splitting, NA detection).  *)
(***************************************************************************)
EXTENDS Integers, Sequences, FiniteSets, TLC

VARIABLES
    dirs,       \* the directories that exist (each a sequence of names)
    files,      \* path -> content, Absent for a path that does not exist
    target,     \* file utilities: the path the calls of this run are given
    table,      \* file utilities: the DataFrame handed to safe_write_table
    ret,        \* file utilities: the last call, its arguments and outcome
    pre,        \* <<dirs, files>> when the last call, or the process, began
    cmd,        \* workflows: args.command, the stage the process was started for
    args,       \* workflows: the parsed command line
    pc,         \* workflows: the statement the process is at
    exit_code,  \* workflows: the exit status, -1 while the process runs
    df,         \* workflows: the DataFrame loaded
    doc,        \* workflows: qc_results, qc_data, analysis_results or metadata
    html,       \* workflows: the report generate_html_report returned
    trace,      \* workflows: the steps taken so far, each with the error it raised
    matplotlib, \* workflows: whether "import matplotlib.pyplot" succeeds
    history     \* workflows: the invocations that ended before this one: how
                \* many, the last one, and the lines their log appends make

utilVars == <<target, table, ret>>
stageVars == <<cmd, args, pc, exit_code, df, doc, html, trace, matplotlib, history>>
vars == <<dirs, files, target, table, ret, pre,
          cmd, args, pc, exit_code, df, doc, html, trace, matplotlib, history>>

(***************************************************************************)
(* Bounds of the model.                                                    *)
(***************************************************************************)
MaxRows == 2

MaxReportRows == 11

MaxRuns == 2

(***************************************************************************)
(* Small helpers.                                                          *)
(***************************************************************************)
Range(s) == {s[i] : i \in 1..Len(s)}

Min(a, b) == IF a < b THEN a ELSE b

RECURSIVE SeqSum(_)
SeqSum(s) == IF s = <<>> THEN 0 ELSE Head(s) + SeqSum(Tail(s))

SeqsUpTo(S, n) == UNION {[1..k -> S] : k \in 0..n}

(***************************************************************************)
(* Paths.  A path is its directory (a sequence of names), the stem of its  *)
(* file name and the extension.  A dot file such as ".csv" has the stem    *)
(* ".csv" and no extension: pathlib's suffix is empty for it, while        *)
(* str.endswith(".csv") is true of it.                                     *)
(***************************************************************************)
Root == <<>>

P(dir, stem, ext) == [dir |-> dir, stem |-> stem, ext |-> ext]

Parent(p) == p.dir

Suffix(p) == p.ext

Name(p) == <<p.stem, p.ext>>

EndsWith(p, e) == p.ext = e \/ (p.ext = "" /\ p.stem = e)

with_suffix(p, e) == [p EXCEPT !.ext = e]

Ancestors(d) == {SubSeq(d, 1, k) : k \in 0..Len(d)}

\* Path.mkdir(parents=True, exist_ok=True): every missing ancestor is made,
\* and an existing directory is no error.
mkdir_parents(D, d) == D \cup Ancestors(d)

(***************************************************************************)
(* File contents.                                                          *)
(***************************************************************************)
Absent == [kind |-> "absent"]

Text(lines) == [kind |-> "text", lines |-> lines]

Json(d) == [kind |-> "json", doc |-> d]

EmptyFile == Text(<<>>)

Exists(F, p) == F[p].kind # "absent"

\* st_size: a line is its characters and a line terminator; a serialized
\* JSON document or HTML page is never zero bytes long.
Size(c) ==
    IF c.kind = "text"
    THEN SeqSum([i \in 1..Len(c.lines) |-> Len(c.lines[i]) + 1])
    ELSE 1

(***************************************************************************)
(* Exceptions and outcomes of a call.                                      *)
(***************************************************************************)
Exc(type, msg) == [type |-> type, msg |-> msg]

Wrapped(type, msg, cause) == [type |-> type, msg |-> msg, cause |-> cause]

Raise(e) == [raised |-> TRUE, exc |-> e]

Return(v) == [raised |-> FALSE, val |-> v]

None == "None"

(***************************************************************************)
(* Delimited text.  Characters are the two delimiters, the quote and       *)
(* chunks of ordinary text.  A cell of a DataFrame is missing (NaN) or a   *)
(* text; numbers are not modelled, every value is a text.                  *)
(***************************************************************************)
COMMA == ","

TAB == "\t"

QUOTE == "\""

NaN == [na |-> TRUE, text |-> <<>>]

Str(t) == [na |-> FALSE, text |-> t]

\* pandas' default NA markers, restricted to the texts of the model.
NAValues == {<<>>, <<"NA">>}

DataFrame(columns, rows) == [columns |-> columns, rows |-> rows]

\* kwargs: a map from the keyword names given to their values.
NoKwargs == [k \in {} |-> ""]

Kw(k, v) == [x \in {k} |-> v]

(***************************************************************************)
(* DataFrame.to_csv(path, sep=sep, index=index): csv.writer with minimal   *)
(* quoting, NaN written as the empty field, a row of one empty field       *)
(* written as "" so that it is no blank line.                              *)
(***************************************************************************)
NeedsQuote(t, sep) == \E i \in 1..Len(t) : t[i] \in {sep, QUOTE}

RECURSIVE DoubleQuotes(_)
DoubleQuotes(t) ==
    IF t = <<>> THEN <<>>
    ELSE (IF Head(t) = QUOTE THEN <<QUOTE, QUOTE>> ELSE <<Head(t)>>)
             \o DoubleQuotes(Tail(t))

WriteField(t, sep, alone) ==
    IF NeedsQuote(t, sep) THEN <<QUOTE>> \o DoubleQuotes(t) \o <<QUOTE>>
    ELSE IF alone /\ t = <<>> THEN <<QUOTE, QUOTE>>
    ELSE t

RECURSIVE JoinFields(_, _)
JoinFields(fs, sep) ==
    IF fs = <<>> THEN <<>>
    ELSE IF Len(fs) = 1 THEN Head(fs)
    ELSE Head(fs) \o <<sep>> \o JoinFields(Tail(fs), sep)

WriteRow(texts, sep) ==
    JoinFields([j \in 1..Len(texts) |-> WriteField(texts[j], sep, Len(texts) = 1)], sep)

CellText(c) == IF c.na THEN <<>> ELSE c.text

to_csv(frame, sep, index) ==
    LET lead(t) == IF index THEN <<t>> ELSE <<>>
        header == lead(<<>>) \o frame.columns
        row(i) == lead(<<ToString(i - 1)>>)
                      \o [j \in 1..Len(frame.rows[i]) |-> CellText(frame.rows[i][j])]
    IN  Text(<<WriteRow(header, sep)>>
                 \o [i \in 1..Len(frame.rows) |-> WriteRow(row(i), sep)])

(***************************************************************************)
(* pandas.read_csv(path, sep=sep): blank lines are skipped; the first      *)
(* line left is the header; a quote opens and closes a quoted field, a     *)
(* doubled quote inside one is a quote; a text that ends inside a quoted   *)
(* field is a parse error (the model reports it for the line it is on).    *)
(* A first data row longer than the header makes its leading fields the    *)
(* index; a later row longer than that is a parse error, a shorter row is  *)
(* padded with NaN.  An unnamed header field is named "Unnamed: j".        *)
(* Renaming of duplicate header fields is not modelled.                    *)
(***************************************************************************)
RECURSIVE SplitFrom(_, _, _, _, _, _)
SplitFrom(line, sep, i, cur, inq, acc) ==
    IF i > Len(line) THEN [ok |-> ~inq, fields |-> Append(acc, cur)]
    ELSE LET c == line[i]
         IN  IF inq
             THEN IF c = QUOTE
                  THEN IF i < Len(line) /\ line[i + 1] = QUOTE
                       THEN SplitFrom(line, sep, i + 2, Append(cur, QUOTE), TRUE, acc)
                       ELSE SplitFrom(line, sep, i + 1, cur, FALSE, acc)
                  ELSE SplitFrom(line, sep, i + 1, Append(cur, c), TRUE, acc)
             ELSE IF c = QUOTE THEN SplitFrom(line, sep, i + 1, cur, TRUE, acc)
             ELSE IF c = sep THEN SplitFrom(line, sep, i + 1, <<>>, FALSE, Append(acc, cur))
             ELSE SplitFrom(line, sep, i + 1, Append(cur, c), FALSE, acc)

SplitLine(line, sep) == SplitFrom(line, sep, 1, <<>>, FALSE, <<>>)

ColumnName(header, j) ==
    IF header[j] = <<>> THEN <<"Unnamed: ", ToString(j - 1)>> ELSE header[j]

ParseCell(t) == IF t \in NAValues THEN NaN ELSE Str(t)

parse_lines(used, sep) ==
    LET split == [i \in 1..Len(used) |-> SplitLine(used[i], sep)]
    IN  IF used = <<>>
        THEN Raise(Exc("EmptyDataError", "No columns to parse from file"))
        ELSE IF \E i \in 1..Len(used) : ~split[i].ok
        THEN Raise(Exc("ParserError", "EOF inside string"))
        ELSE LET header == split[1].fields
                 N == Len(header)
                 data == [i \in 1..(Len(used) - 1) |-> split[i + 1].fields]
                 E == IF data = <<>> THEN N ELSE IF Len(data[1]) > N THEN Len(data[1]) ELSE N
                 field(i, j) == IF j <= Len(data[i]) THEN data[i][j] ELSE <<>>
             IN  IF \E i \in 2..Len(data) : Len(data[i]) > E
                 THEN Raise(Exc("ParserError", "Expected fewer fields"))
                 ELSE Return(DataFrame(
                          [j \in 1..N |-> ColumnName(header, j)],
                          [i \in 1..Len(data) |->
                              [j \in 1..N |-> ParseCell(field(i, j + (E - N)))]]))

NonBlank(lines) == SelectSeq(lines, LAMBDA l : l # <<>>)

read_csv(c, sep) == parse_lines(NonBlank(c.lines), sep)

\* read_csv(..., nrows=n): the header and the first n rows only.
read_csv_nrows(c, sep, n) ==
    LET body == NonBlank(c.lines)
    IN  parse_lines(SubSeq(body, 1, Min(Len(body), n + 1)), sep)

\* json.load of a file: a zero-byte or delimited text is no JSON document.
json_load(c) ==
    IF c.kind = "json" THEN Return(c.doc)
    ELSE Raise(Exc("JSONDecodeError", "Expecting value"))

(***************************************************************************)
(* src/modules/file_utils.py, each function as the outcome it has in a     *)
(* file system <<D, F>> and, for the writers, the file system it leaves.   *)
(***************************************************************************)
\* The header check: set(required_columns) - set(df.columns), df the header
\* and first row of the file.
missing_columns_reversed(required_columns, columns) ==
    Range(columns) \ Range(required_columns)

missing_columns(required_columns, columns) ==
    Range(required_columns) \ Range(columns)

check_required_columns(F, file_path, required_columns) ==
    IF required_columns # <<>>
       /\ (EndsWith(file_path, ".tsv") \/ EndsWith(file_path, ".csv"))
    THEN LET sep == IF EndsWith(file_path, ".tsv") THEN TAB ELSE COMMA
             r == read_csv_nrows(F[file_path], sep, 1)
             missing_cols == missing_columns(required_columns, r.val.columns)
         IN  IF r.raised
             THEN Raise(Wrapped("ValueError", "Error reading tabular file", r.exc))
             ELSE IF missing_cols # {}
             THEN Raise(Wrapped("ValueError", "Error reading tabular file",
                      [type |-> "ValueError", msg |-> "Missing required columns",
                       names |-> missing_cols]))
             ELSE Return(None)
    ELSE Return(None)

validate_input_file_any_size(F, file_path, required_columns) ==
    IF ~Exists(F, file_path)
    THEN Raise(Exc("FileNotFoundError", "Input file not found"))
    ELSE check_required_columns(F, file_path, required_columns)

validate_input_file(F, file_path, required_columns) ==
    IF ~Exists(F, file_path)
    THEN Raise(Exc("FileNotFoundError", "Input file not found"))
    ELSE IF Size(F[file_path]) = 0
    THEN Raise(Exc("ValueError", "Input file is empty"))
    ELSE check_required_columns(F, file_path, required_columns)

safe_read_json(F, file_path) ==
    IF ~Exists(F, file_path)
    THEN Raise(Exc("FileNotFoundError", "JSON file not found"))
    ELSE LET r == json_load(F[file_path])
         IN  IF r.raised
             THEN Raise(Wrapped("ValueError", "Malformed JSON", r.exc))
             ELSE r

InferSep(file_path) == IF EndsWith(file_path, ".tsv") THEN TAB ELSE COMMA

\* kwargs['sep'] after "if 'sep' not in kwargs: kwargs['sep'] = sep".
EffectiveSep(file_path, kwargs) ==
    IF "sep" \notin DOMAIN kwargs THEN InferSep(file_path) ELSE kwargs["sep"]

\* kwargs['index'] after "if 'index' not in kwargs: kwargs['index'] = False".
EffectiveIndex_kept(kwargs) ==
    IF "index" \notin DOMAIN kwargs THEN TRUE ELSE kwargs["index"]

EffectiveIndex(kwargs) ==
    IF "index" \notin DOMAIN kwargs THEN FALSE ELSE kwargs["index"]

safe_read_table(F, file_path, kwargs) ==
    IF ~Exists(F, file_path)
    THEN Raise(Exc("FileNotFoundError", "Table file not found"))
    ELSE LET r == read_csv(F[file_path], EffectiveSep(file_path, kwargs))
         IN  IF r.raised
             THEN Raise(Wrapped("ValueError", "Error reading table", r.exc))
             ELSE r

\* open(file_path, 'w') and the write: the file is created or truncated in a
\* directory that exists; in one that does not, open raises.
open_write(D, F, file_path, content) ==
    IF Parent(file_path) \in D
    THEN [dirs |-> D, files |-> [F EXCEPT ![file_path] = content],
          out |-> Return(None)]
    ELSE [dirs |-> D, files |-> F,
          out |-> Raise(Exc("FileNotFoundError", "No such file or directory"))]

safe_write_json(D, F, data, file_path) ==
    open_write(mkdir_parents(D, Parent(file_path)), F, file_path, Json(data))

safe_write_table(D, F, frame, file_path, kwargs) ==
    open_write(mkdir_parents(D, Parent(file_path)), F, file_path,
               to_csv(frame, EffectiveSep(file_path, kwargs), EffectiveIndex(kwargs)))

create_output_directory(D, file_path) == mkdir_parents(D, Parent(file_path))

get_file_info_unguarded(F, file_path) ==
    IF ~Exists(F, file_path) THEN Return([exists |-> FALSE])
    ELSE LET info == [exists |-> TRUE,
                      size_bytes |-> Size(F[file_path]),
                      is_empty |-> Size(F[file_path]) = 0,
                      extension |-> Suffix(file_path),
                      name |-> Name(file_path),
                      parent |-> Parent(file_path)]
             sep == IF Suffix(file_path) = ".tsv" THEN TAB ELSE COMMA
             r == read_csv(F[file_path], sep)
         IN  IF Suffix(file_path) \in {".tsv", ".csv"} /\ ~info.is_empty
             THEN IF r.raised
                  THEN r
                  ELSE Return(info @@ [n_rows |-> Len(r.val.rows),
                                       n_columns |-> Len(r.val.columns),
                                       columns |-> r.val.columns])
             ELSE Return(info)

get_file_info(F, file_path) ==
    IF ~Exists(F, file_path) THEN Return([exists |-> FALSE])
    ELSE LET info == [exists |-> TRUE,
                      size_bytes |-> Size(F[file_path]),
                      is_empty |-> Size(F[file_path]) = 0,
                      extension |-> Suffix(file_path),
                      name |-> Name(file_path),
                      parent |-> Parent(file_path)]
             sep == IF Suffix(file_path) = ".tsv" THEN TAB ELSE COMMA
             r == read_csv(F[file_path], sep)
         IN  IF Suffix(file_path) \in {".tsv", ".csv"} /\ ~info.is_empty
             THEN IF r.raised
                  THEN Return(info @@ [table_read_error |-> TRUE])
                  ELSE Return(info @@ [n_rows |-> Len(r.val.rows),
                                       n_columns |-> Len(r.val.columns),
                                       columns |-> r.val.columns])
             ELSE Return(info)

(***************************************************************************)
(* src/workflows/analysis_workflow.py: the pieces of the qc and analyze    *)
(* handlers.                                                               *)
(***************************************************************************)
WarnPercent == 50

wf_validate_input_file_any_size(F, file_path) ==
    IF ~Exists(F, file_path)
    THEN Raise(Exc("FileNotFoundError", "Input file not found"))
    ELSE Return(None)

\* The workflow's own validate_input_file: existence, then size.
wf_validate_input_file(F, file_path) ==
    IF ~Exists(F, file_path)
    THEN Raise(Exc("FileNotFoundError", "Input file not found"))
    ELSE IF Size(F[file_path]) = 0
    THEN Raise(Exc("ValueError", "Input file is empty"))
    ELSE Return(None)

\* pd.read_csv(path, sep='\t'): open fails on a missing path.
load_tsv(F, file_path) ==
    IF ~Exists(F, file_path)
    THEN Raise(Exc("FileNotFoundError", "No such file or directory"))
    ELSE read_csv(F[file_path], TAB)

\* with open(path, 'r') as f: json.load(f)
load_json(F, file_path) ==
    IF ~Exists(F, file_path)
    THEN Raise(Exc("FileNotFoundError", "No such file or directory"))
    ELSE json_load(F[file_path])

\* df.isnull().sum(): the missing cells of column j.
NullCount(frame, j) == Cardinality({i \in 1..Len(frame.rows) : frame.rows[i][j].na})

\* df.isnull().sum().sum()
NullTotal(frame) == SeqSum([j \in 1..Len(frame.columns) |-> NullCount(frame, j)])

\* df.size
DfSize(frame) == Len(frame.rows) * Len(frame.columns)

HighMissing_from_half(frame) ==
    DfSize(frame) > 0 /\ NullTotal(frame) * 100 >= WarnPercent * DfSize(frame)

\* missing_percent = (nulls / df.size) * 100; missing_percent > 50.  With
\* df.size = 0 the quotient is nan and the comparison false.
HighMissing(frame) ==
    DfSize(frame) > 0 /\ NullTotal(frame) * 100 > WarnPercent * DfSize(frame)

\* missing_percent to one decimal, in tenths of a percent.
MissingTenths(frame) == (NullTotal(frame) * 2000 + DfSize(frame)) \div (2 * DfSize(frame))

qc_results(input_file, frame) ==
    LET base == [input_file |-> input_file,
                 n_rows |-> Len(frame.rows),
                 n_columns |-> Len(frame.columns),
                 columns |-> frame.columns,
                 missing_data_summary |->
                     [c \in Range(frame.columns) |->
                         NullCount(frame, CHOOSE j \in 1..Len(frame.columns) :
                                              frame.columns[j] = c)],
                 qc_status |-> "PASS"]
    IN  IF HighMissing(frame)
        THEN [base EXCEPT !.qc_status = "WARNING"]
                 @@ [warning |-> <<"High missing data: ", MissingTenths(frame)>>]
        ELSE base

QcLogLine(results) == <<"QC completed: ", results.qc_status>>

qc_gate_pass_only(qc_data) ==
    IF "qc_status" \notin DOMAIN qc_data
    THEN Raise(Exc("KeyError", "qc_status"))
    ELSE IF qc_data.qc_status # "PASS"
    THEN Raise(Exc("ValueError", "Cannot proceed with analysis"))
    ELSE Return(None)

\* if qc_data['qc_status'] not in ['PASS', 'WARNING']: raise ValueError
qc_gate(qc_data) ==
    IF "qc_status" \notin DOMAIN qc_data
    THEN Raise(Exc("KeyError", "qc_status"))
    ELSE IF qc_data.qc_status \notin {"PASS", "WARNING"}
    THEN Raise(Exc("ValueError", "Cannot proceed with analysis"))
    ELSE Return(None)

top_results ==
    << [feature |-> <<"feature_1">>, p_value |-> <<"0.001">>, effect_size |-> <<"1.5">>],
       [feature |-> <<"feature_2">>, p_value |-> <<"0.003">>, effect_size |-> <<"-1.2">>],
       [feature |-> <<"feature_3">>, p_value |-> <<"0.012">>, effect_size |-> <<"0.8">>] >>

analysis_results(input_file) ==
    [analysis_type |-> "standard",
     input_qc_file |-> input_file,
     n_significant_results |-> 42,
     top_results |-> top_results,
     analysis_status |-> "COMPLETED"]

\* pd.DataFrame(analysis_results['top_results'])
results_df ==
    DataFrame(<< <<"feature">>, <<"p_value">>, <<"effect_size">> >>,
              [i \in 1..Len(top_results) |->
                  <<Str(top_results[i].feature), Str(top_results[i].p_value),
                    Str(top_results[i].effect_size)>>])

AnalysisLogLine(results) ==
    <<"Analysis completed: ", ToString(results.n_significant_results),
      " significant results">>

append_line_truncating(D, F, file_path, line) ==
    IF Parent(file_path) \in D
    THEN [dirs |-> D,
          files |-> [F EXCEPT ![file_path] = Text(<<line>>)],
          out |-> Return(None)]
    ELSE [dirs |-> D, files |-> F,
          out |-> Raise(Exc("FileNotFoundError", "No such file or directory"))]

\* with open(log_file, 'a') as f: f.write(line)
append_line(D, F, file_path, line) ==
    IF Parent(file_path) \in D
    THEN [dirs |-> D,
          files |-> [F EXCEPT ![file_path] =
                        Text((IF Exists(F, file_path) THEN F[file_path].lines ELSE <<>>)
                                 \o <<line>>)],
          out |-> Return(None)]
    ELSE [dirs |-> D, files |-> F,
          out |-> Raise(Exc("FileNotFoundError", "No such file or directory"))]

(***************************************************************************)
(* src/workflows/result_workflow.py: the report renderer and the plots.    *)
(***************************************************************************)
HeadRows == 10

\* df.empty: an axis of length 0.
IsEmpty(frame) == Len(frame.columns) = 0 \/ Len(frame.rows) = 0

\* metadata.get(key, 'Unknown'), as it is formatted into the page.
MetaGet(metadata, key) ==
    IF key \notin DOMAIN metadata THEN "Unknown"
    ELSE IF key = "n_significant_results" THEN ToString(metadata[key])
    ELSE metadata[key]

\* str(value); no cell of the model is a number, so none takes the
\* scientific notation of a small p-value.
FormatCell(c) == IF c.na THEN <<"nan">> ELSE c.text

tail(frame, n) ==
    SubSeq(frame.rows, Len(frame.rows) - Min(Len(frame.rows), n) + 1, Len(frame.rows))

\* df.head(n): the first n rows, all of them when there are fewer.
head(frame, n) == SubSeq(frame.rows, 1, Min(Len(frame.rows), n))

\* The page, as its parts in the order they are written: the title, the
\* "Total Results" of the summary block, the metadata lines of the summary
\* block, and the <tr> rows between <table> and </table>.
generate_html_report(frame, metadata, project_name) ==
    [title |-> project_name,
     total |-> Len(frame.rows),
     metadata |-> IF DOMAIN metadata # {}
                  THEN <<MetaGet(metadata, "analysis_type"),
                         MetaGet(metadata, "n_significant_results"),
                         MetaGet(metadata, "analysis_status")>>
                  ELSE <<>>,
     table |-> IF ~IsEmpty(frame)
               THEN <<[tag |-> "th", cells |-> frame.columns]>>
                    \o [i \in 1..Len(head(frame, HeadRows)) |->
                           [tag |-> "td",
                            cells |-> [j \in 1..Len(frame.columns) |->
                                          FormatCell(head(frame, HeadRows)[i][j])]]]
               ELSE <<>>]

Html(page) == [kind |-> "html", page |-> page]

Plot == [kind |-> "plot"]

\* Path(output_file).touch(): creates an empty file, leaves an existing one.
touch(D, F, file_path) ==
    IF Parent(file_path) \in D
    THEN [dirs |-> D,
          files |-> IF Exists(F, file_path) THEN F
                    ELSE [F EXCEPT ![file_path] = EmptyFile],
          out |-> Return(None)]
    ELSE [dirs |-> D, files |-> F,
          out |-> Raise(Exc("FileNotFoundError", "No such file or directory"))]

(***************************************************************************)
(* The inputs of the file utilities.                                       *)
(***************************************************************************)
ColA == <<"a">>

ColB == <<"b">>

ColC == <<"c">>

ColD == <<"d">>

TextX == <<"x">>

UtilPaths ==
    { P(Root, "data", ".tsv"),
      P(<<"out">>, "data", ".csv"),
      P(Root, ".csv", ""),
      P(<<"out", "sub">>, "notes", ".txt"),
      P(Root, "doc", ".json") }

Docs == { [status |-> "ok"] }

\* Texts a caller may find at a path: tables written with either delimiter,
\* a header alone, a text that ends inside a quoted field (in its first row,
\* or only in its second), and a file of one blank line.
InputTables ==
    { DataFrame(<<ColA, ColB, ColC>>, << <<Str(TextX), Str(TextX), NaN>> >>),
      DataFrame(<<ColA, ColB>>, <<>>),
      DataFrame(<<ColD>>, << <<Str(TextX)>>, <<NaN>> >>) }

InputTexts ==
    { to_csv(t, sep, FALSE) : t \in InputTables, sep \in {COMMA, TAB} }
    \cup { Text(<< <<"a", COMMA, "b">>, <<QUOTE, "x">> >>),
           Text(<< <<"a", TAB, "b">>, <<"x", TAB, "x">>, <<QUOTE, "x">> >>),
           Text(<< <<>> >>) }

InputContents(p) ==
    {Absent, EmptyFile} \cup InputTexts
    \cup (IF EndsWith(p, ".tsv") \/ EndsWith(p, ".csv") THEN {}
          ELSE {Json(d) : d \in Docs})

RequiredColumns == { <<>>, <<ColB>>, <<ColB, ColD>>, <<ColA, ColB, ColC>>, <<ColD, ColD>> }

ReadKwargs == { NoKwargs, Kw("sep", COMMA), Kw("sep", TAB) }

WriteKwargs == ReadKwargs \cup { Kw("index", TRUE) }

Cells ==
    { NaN, Str(<<>>), Str(<<"NA">>), Str(TextX),
      Str(<<"x", COMMA, "y">>), Str(<<"x", TAB, "y">>) }

ColumnLists == { <<>>, <<ColA>>, <<ColA, ColB>> }

\* The tables written: up to MaxRows rows, every cell of a row the same value.
Tables ==
    UNION { { DataFrame(cols, rows) :
                rows \in SeqsUpTo({[j \in 1..Len(cols) |-> v] : v \in Cells}, MaxRows) } :
            cols \in ColumnLists }

NoTable == DataFrame(<<>>, <<>>)

NoCall == [op |-> "none"]

\* The directories of a file system in which content c is at path p: the
\* parent of an existing file exists; that of a missing one may not.
DirChoices(p, c) ==
    IF c = Absent THEN {{Root}, Ancestors(Parent(p))} ELSE {Ancestors(Parent(p))}

(***************************************************************************)
(* The file utilities called on the path of the run.  Every action is one  *)
(* call, whole; ret keeps the call, pre the file system it began in.       *)
(***************************************************************************)
Call(op, a, out) == [op |-> op, args |-> a, out |-> out]

ValidateInputFile(required_columns) ==
    /\ ret' = Call("validate_input_file", required_columns,
                   validate_input_file(files, target, required_columns))
    /\ pre' = <<dirs, files>>
    /\ UNCHANGED <<dirs, files, target, table, stageVars>>

SafeReadJson ==
    /\ ret' = Call("safe_read_json", None, safe_read_json(files, target))
    /\ pre' = <<dirs, files>>
    /\ UNCHANGED <<dirs, files, target, table, stageVars>>

\* The model holds no delimited reading of a serialized JSON document.
SafeReadTable(kwargs) ==
    /\ files[target].kind # "json"
    /\ ret' = Call("safe_read_table", kwargs, safe_read_table(files, target, kwargs))
    /\ pre' = <<dirs, files>>
    /\ UNCHANGED <<dirs, files, target, table, stageVars>>

GetFileInfo ==
    /\ files[target].kind # "json" \/ Suffix(target) \notin {".tsv", ".csv"}
    /\ ret' = Call("get_file_info", None, get_file_info(files, target))
    /\ pre' = <<dirs, files>>
    /\ UNCHANGED <<dirs, files, target, table, stageVars>>

SafeWriteJson(data) ==
    /\ ~(EndsWith(target, ".tsv") \/ EndsWith(target, ".csv"))
    /\ LET w == safe_write_json(dirs, files, data, target)
       IN  /\ dirs' = w.dirs
           /\ files' = w.files
           /\ ret' = Call("safe_write_json", data, w.out)
    /\ pre' = <<dirs, files>>
    /\ UNCHANGED <<target, table, stageVars>>

SafeWriteTable(kwargs) ==
    /\ LET w == safe_write_table(dirs, files, table, target, kwargs)
       IN  /\ dirs' = w.dirs
           /\ files' = w.files
           /\ ret' = Call("safe_write_table", kwargs, w.out)
    /\ pre' = <<dirs, files>>
    /\ UNCHANGED <<target, table, stageVars>>

CreateOutputDirectory ==
    /\ dirs' = create_output_directory(dirs, target)
    /\ ret' = Call("create_output_directory", None, Return(Parent(target)))
    /\ pre' = <<dirs, files>>
    /\ UNCHANGED <<files, target, table, stageVars>>

NoFiles == [p \in UtilPaths |-> Absent]

NoPath == P(Root, "", "")

NoDoc == [k \in {} |-> ""]

NoHtml == [title |-> "", total |-> 0, metadata |-> <<>>, table |-> <<>>]

\* No workflow process: the run is one of calls to the file utilities.
StageUnused ==
    /\ cmd = "none"
    /\ args = NoDoc
    /\ pc = "none"
    /\ exit_code = -1
    /\ df = NoTable
    /\ doc = NoDoc
    /\ html = NoHtml
    /\ trace = <<>>
    /\ matplotlib = TRUE
    /\ history = [runs |-> 0, last |-> [cmd |-> "none", exit_code |-> -1], log |-> <<>>]

\* The readers, on a path that holds any of the input contents.
InitRead ==
    /\ target \in UtilPaths
    /\ \E c \in InputContents(target) :
          /\ files = [NoFiles EXCEPT ![target] = c]
          /\ dirs \in DirChoices(target, c)
    /\ table = NoTable
    /\ ret = NoCall
    /\ pre = <<dirs, files>>
    /\ StageUnused

NextRead ==
    \/ \E r \in RequiredColumns : ValidateInputFile(r)
    \/ SafeReadJson
    \/ \E k \in ReadKwargs : SafeReadTable(k)
    \/ GetFileInfo

SpecRead == InitRead /\ [][NextRead]_vars

\* The writers and the readers, on a path that is missing at first.
InitTable ==
    /\ target \in UtilPaths
    /\ files = NoFiles
    /\ dirs \in DirChoices(target, Absent)
    /\ table \in Tables
    /\ ret = NoCall
    /\ pre = <<dirs, files>>
    /\ StageUnused

NextTable ==
    \/ \E k \in WriteKwargs : SafeWriteTable(k)
    \/ \E k \in ReadKwargs : SafeReadTable(k)
    \/ \E d \in Docs : SafeWriteJson(d)
    \/ SafeReadJson
    \/ CreateOutputDirectory

SpecTable == InitTable /\ [][NextTable]_vars

(***************************************************************************)
(* The workflow processes.  A process is started for one stage with its    *)
(* command line parsed; main routes it to the handler, the handler runs    *)
(* statement by statement, and the process ends done (exit status 0) or    *)
(* failed (exit status 1).                                                 *)
(***************************************************************************)
ErrOf(out) == IF out.raised THEN out.exc.type ELSE None

Step(name, phase, err) == [step |-> name, phase |-> phase, err |-> err]

Goto(next) == pc' = next /\ exit_code' = exit_code

SysExit0 == pc' = "failed" /\ exit_code' = 0

\* except Exception as e: logging.error(...); sys.exit(1)
SysExit1 == pc' = "failed" /\ exit_code' = 1

\* The handler returns, main returns: exit status 0.
Return0 == pc' = "done" /\ exit_code' = 0

Then(out, next) == IF out.raised THEN SysExit1 ELSE Goto(next)

\* An operating-system error of a write: the disk is full, the file is not
\* writable.
OSError == Raise(Exc("OSError", "write failed"))

Truthy(path) == path # NoPath

Main ==
    /\ pc = "main"
    /\ pc' = CASE cmd = "qc" -> "qc_validate"
               [] cmd = "analyze" -> "an_load"
               [] cmd = "report" -> "rp_load"
               [] cmd = "all" -> "all_print"
    /\ UNCHANGED <<dirs, files, pre, utilVars, history, cmd, args, exit_code, df, doc,
                   html, trace, matplotlib>>

\* ---- handle_stage_qc ----
QcValidate ==
    /\ pc = "qc_validate"
    /\ LET r == wf_validate_input_file(files, args.input_file)
       IN  /\ trace' = Append(trace, Step("validate", "validate", ErrOf(r)))
           /\ Then(r, "qc_load")
    /\ UNCHANGED <<dirs, files, pre, utilVars, history, cmd, args, df, doc, html,
                   matplotlib>>

QcLoad ==
    /\ pc = "qc_load"
    /\ LET r == load_tsv(files, args.input_file)
       IN  /\ trace' = Append(trace, Step("load", "load", ErrOf(r)))
           /\ df' = IF r.raised THEN df ELSE r.val
           /\ Then(r, "qc_compute")
    /\ UNCHANGED <<dirs, files, pre, utilVars, history, cmd, args, doc, html, matplotlib>>

QcCompute ==
    /\ pc = "qc_compute"
    /\ doc' = qc_results(args.input_file, df)
    /\ trace' = Append(trace, Step("compute", "compute", None))
    /\ Goto("qc_mkdir")
    /\ UNCHANGED <<dirs, files, pre, utilVars, history, cmd, args, df, html, matplotlib>>

QcMkdir ==
    /\ pc = "qc_mkdir"
    /\ dirs' = mkdir_parents(dirs, Parent(args.output_file))
    /\ trace' = Append(trace, Step("mkdir", "write", None))
    /\ Goto("qc_write")
    /\ UNCHANGED <<files, pre, utilVars, history, cmd, args, df, doc, html, matplotlib>>

QcWrite ==
    /\ pc = "qc_write"
    /\ \E fault \in BOOLEAN :
          LET w == open_write(dirs, files, args.output_file, Json(doc))
              out == IF fault THEN OSError ELSE w.out
          IN  /\ files' = IF out.raised THEN files ELSE w.files
              /\ trace' = Append(trace, Step("write_output", "write", ErrOf(out)))
              /\ Then(out, "qc_log")
    /\ UNCHANGED <<dirs, pre, utilVars, history, cmd, args, df, doc, html, matplotlib>>

QcLog ==
    /\ pc = "qc_log"
    /\ IF Truthy(args.log_file)
       THEN LET w == append_line(dirs, files, args.log_file, QcLogLine(doc))
            IN  /\ files' = w.files
                /\ trace' = Append(trace, Step("log", "log", ErrOf(w.out)))
                /\ IF w.out.raised THEN SysExit1 ELSE Return0
       ELSE /\ Return0
            /\ UNCHANGED <<files, trace>>
    /\ UNCHANGED <<dirs, pre, utilVars, history, cmd, args, df, doc, html, matplotlib>>

\* ---- handle_stage_analyze ----
AnLoad ==
    /\ pc = "an_load"
    /\ LET r == load_json(files, args.input_file)
       IN  /\ trace' = Append(trace, Step("load", "load", ErrOf(r)))
           /\ doc' = IF r.raised THEN doc ELSE r.val
           /\ Then(r, "an_gate")
    /\ UNCHANGED <<dirs, files, pre, utilVars, history, cmd, args, df, html, matplotlib>>

AnGate ==
    /\ pc = "an_gate"
    /\ LET r == qc_gate(doc)
       IN  /\ trace' = Append(trace, Step("gate", "compute", ErrOf(r)))
           /\ Then(r, "an_compute")
    /\ UNCHANGED <<dirs, files, pre, utilVars, history, cmd, args, df, doc, html,
                   matplotlib>>

AnCompute ==
    /\ pc = "an_compute"
    /\ doc' = analysis_results(args.input_file)
    /\ trace' = Append(trace, Step("compute", "compute", None))
    /\ Goto("an_mkdir")
    /\ UNCHANGED <<dirs, files, pre, utilVars, history, cmd, args, df, html, matplotlib>>

AnMkdir ==
    /\ pc = "an_mkdir"
    /\ dirs' = mkdir_parents(dirs, Parent(args.output_file))
    /\ trace' = Append(trace, Step("mkdir", "write", None))
    /\ Goto("an_write_json")
    /\ UNCHANGED <<files, pre, utilVars, history, cmd, args, df, doc, html, matplotlib>>

AnWriteJson ==
    /\ pc = "an_write_json"
    /\ \E fault \in BOOLEAN :
          LET w == open_write(dirs, files, with_suffix(args.output_file, ".json"), Json(doc))
              out == IF fault THEN OSError ELSE w.out
          IN  /\ files' = IF out.raised THEN files ELSE w.files
              /\ trace' = Append(trace, Step("write_json", "write", ErrOf(out)))
              /\ Then(out, "an_write_tsv")
    /\ UNCHANGED <<dirs, pre, utilVars, history, cmd, args, df, doc, html, matplotlib>>

AnWriteTsv ==
    /\ pc = "an_write_tsv"
    /\ df' = results_df
    /\ \E fault \in BOOLEAN :
          LET w == open_write(dirs, files, args.output_file, to_csv(results_df, TAB, FALSE))
              out == IF fault THEN OSError ELSE w.out
          IN  /\ files' = IF out.raised THEN files ELSE w.files
              /\ trace' = Append(trace, Step("write_output", "write", ErrOf(out)))
              /\ Then(out, "an_log")
    /\ UNCHANGED <<dirs, pre, utilVars, history, cmd, args, doc, html, matplotlib>>

AnLog ==
    /\ pc = "an_log"
    /\ IF Truthy(args.log_file)
       THEN LET w == append_line(dirs, files, args.log_file, AnalysisLogLine(doc))
            IN  /\ files' = w.files
                /\ trace' = Append(trace, Step("log", "log", ErrOf(w.out)))
                /\ IF w.out.raised THEN SysExit1 ELSE Return0
       ELSE /\ Return0
            /\ UNCHANGED <<files, trace>>
    /\ UNCHANGED <<dirs, pre, utilVars, history, cmd, args, df, doc, html, matplotlib>>

\* ---- handle_stage_all ----
AllPrint ==
    /\ pc = "all_print"
    /\ trace' = Append(trace, Step("print", "compute", None))
    /\ Return0
    /\ UNCHANGED <<dirs, files, pre, utilVars, history, cmd, args, df, doc, html,
                   matplotlib>>

\* ---- handle_stage_report ----
RpLoad ==
    /\ pc = "rp_load"
    /\ LET r == load_tsv(files, args.input_file)
       IN  /\ trace' = Append(trace, Step("load", "load", ErrOf(r)))
           /\ df' = IF r.raised THEN df ELSE r.val
           /\ Then(r, "rp_metadata")
    /\ UNCHANGED <<dirs, files, pre, utilVars, history, cmd, args, doc, html, matplotlib>>

RpMetadata ==
    /\ pc = "rp_metadata"
    /\ LET json_file == with_suffix(args.input_file, ".json")
           r == IF Exists(files, json_file) THEN json_load(files[json_file])
                ELSE Return(NoDoc)
       IN  /\ trace' = Append(trace, Step("load_metadata", "load", ErrOf(r)))
           /\ doc' = IF r.raised THEN doc ELSE r.val
           /\ Then(r, "rp_render")
    /\ UNCHANGED <<dirs, files, pre, utilVars, history, cmd, args, df, html, matplotlib>>

RpRender ==
    /\ pc = "rp_render"
    /\ html' = generate_html_report(df, doc, args.project_name)
    /\ trace' = Append(trace, Step("compute", "compute", None))
    /\ Goto("rp_mkdir")
    /\ UNCHANGED <<dirs, files, pre, utilVars, history, cmd, args, df, doc, matplotlib>>

RpMkdir ==
    /\ pc = "rp_mkdir"
    /\ dirs' = mkdir_parents(dirs, Parent(args.output_html))
    /\ trace' = Append(trace, Step("mkdir", "write", None))
    /\ Goto("rp_write_html")
    /\ UNCHANGED <<files, pre, utilVars, history, cmd, args, df, doc, html, matplotlib>>

RpWriteHtml ==
    /\ pc = "rp_write_html"
    /\ \E fault \in BOOLEAN :
          LET w == open_write(dirs, files, args.output_html, Html(html))
              out == IF fault THEN OSError ELSE w.out
          IN  /\ files' = IF out.raised THEN files ELSE w.files
              /\ trace' = Append(trace, Step("write_output", "write", ErrOf(out)))
              /\ Then(out, "rp_plots")
    /\ UNCHANGED <<dirs, pre, utilVars, history, cmd, args, df, doc, html, matplotlib>>

RpPlots ==
    /\ pc = "rp_plots"
    /\ IF Truthy(args.output_plots) THEN Goto("plot_import") ELSE Return0
    /\ UNCHANGED <<dirs, files, pre, utilVars, history, cmd, args, df, doc, html,
                   trace, matplotlib>>

\* ---- create_analysis_plots ----
PlotImport ==
    /\ pc = "plot_import"
    /\ trace' = Append(trace, Step("import_matplotlib", "plot",
                                   IF matplotlib THEN None ELSE "ImportError"))
    /\ Goto(IF matplotlib THEN "plot_draw" ELSE "plot_touch")
    /\ UNCHANGED <<dirs, files, pre, utilVars, history, cmd, args, df, doc, html,
                   matplotlib>>

\* Drawing the two histograms may raise (a column that is no number).
PlotDraw ==
    /\ pc = "plot_draw"
    /\ \E fault \in BOOLEAN :
          /\ trace' = Append(trace, Step("draw", "plot",
                                         IF fault THEN "Exception" ELSE None))
          /\ Goto(IF fault THEN "plot_touch" ELSE "plot_mkdir")
    /\ UNCHANGED <<dirs, files, pre, utilVars, history, cmd, args, df, doc, html,
                   matplotlib>>

PlotMkdir ==
    /\ pc = "plot_mkdir"
    /\ dirs' = mkdir_parents(dirs, Parent(args.output_plots))
    /\ trace' = Append(trace, Step("mkdir_plots", "write", None))
    /\ Goto("plot_savefig")
    /\ UNCHANGED <<files, pre, utilVars, history, cmd, args, df, doc, html, matplotlib>>

\* plt.savefig may raise (a format it does not support, the disk).
PlotSavefig ==
    /\ pc = "plot_savefig"
    /\ \E fault \in BOOLEAN :
          LET w == open_write(dirs, files, args.output_plots, Plot)
              out == IF fault THEN OSError ELSE w.out
          IN  /\ files' = IF out.raised THEN files ELSE w.files
              /\ trace' = Append(trace, Step("savefig", "write", ErrOf(out)))
              /\ IF out.raised THEN Goto("plot_touch") ELSE Return0
    /\ UNCHANGED <<dirs, pre, utilVars, history, cmd, args, df, doc, html, matplotlib>>

\* The two except branches: an empty file in the place of the plots.  What
\* touch raises leaves create_analysis_plots and ends the handler.
PlotTouch ==
    /\ pc = "plot_touch"
    /\ LET w == touch(dirs, files, args.output_plots)
       IN  /\ files' = w.files
           /\ trace' = Append(trace, Step("touch", "write", ErrOf(w.out)))
           /\ IF w.out.raised THEN SysExit1 ELSE Return0
    /\ UNCHANGED <<dirs, pre, utilVars, history, cmd, args, df, doc, html, matplotlib>>

\* ---- main: except KeyboardInterrupt: sys.exit(1) ----
KeyboardInterrupt ==
    /\ pc \notin {"none", "main", "done", "failed"}
    /\ trace' = Append(trace, Step("interrupt", "interrupt", "KeyboardInterrupt"))
    /\ SysExit1
    /\ UNCHANGED <<dirs, files, pre, utilVars, history, cmd, args, df, doc, html,
                   matplotlib>>

(***************************************************************************)
(* The command lines and file systems a workflow process is started in.    *)
(***************************************************************************)
DataIn == P(Root, "data", ".tsv")

QcOut == P(<<"out">>, "qc", ".json")

ResOut == P(<<"results">>, "results", ".tsv")

ResJson == with_suffix(ResOut, ".json")

HtmlOut == P(<<"report">>, "report", ".html")

RootLog == P(Root, "lap", ".log")

DirLog == P(<<"logs">>, "lap", ".log")

SidePlot == P(<<"report">>, "plots", ".pdf")

DirPlot == P(<<"plots">>, "plots", ".pdf")

StagePaths == {DataIn, QcOut, ResOut, ResJson, HtmlOut, RootLog, DirLog, SidePlot, DirPlot}

NoStageFiles == [p \in StagePaths |-> Absent]

Garbage == Text(<< <<"a", TAB, "b">>, <<QUOTE, "x">> >>)

\* The tables handed to the qc stage: one or two columns, up to MaxRows rows,
\* every cell present or missing.
QcTables ==
    UNION { { DataFrame(cols, rows) :
                rows \in SeqsUpTo([1..Len(cols) -> {Str(TextX), NaN}], MaxRows) } :
            cols \in {<<ColA>>, <<ColA, ColB>>} }

QcInputs == {Absent, EmptyFile, Garbage} \cup {to_csv(t, TAB, FALSE) : t \in QcTables}

QcDocs ==
    { [qc_status |-> "PASS"], [qc_status |-> "WARNING"], [qc_status |-> "FAIL"],
      [n_rows |-> 0] }

AnalyzeInputs == {Absent, EmptyFile} \cup {Json(d) : d \in QcDocs}

ReportInputs ==
    { Absent, EmptyFile, Garbage, to_csv(results_df, TAB, FALSE),
      to_csv(DataFrame(results_df.columns, <<>>), TAB, FALSE) }

MetadataInputs ==
    { Absent, EmptyFile, Json(analysis_results(QcOut)), Json([analysis_type |-> "standard"]) }

OldLog == Text(<< <<"QC completed: ", "PASS">> >>)

\* A log file argument with the content found at it: no log file, one in the
\* working directory (new, or with a line in it), one in a directory.
LogChoices == { <<NoPath, Absent>>, <<RootLog, Absent>>, <<RootLog, OldLog>>, <<DirLog, Absent>> }

\* The directories: those of the files that exist, and any of extra.
BaseDirs(F) == UNION { Ancestors(Parent(p)) : p \in {q \in StagePaths : Exists(F, q)} } \cup {Root}

StageStart(c, a, F, extra, mpl) ==
    /\ cmd = c
    /\ args = a
    /\ files = F
    /\ dirs = BaseDirs(F) \cup extra
    /\ matplotlib = mpl
    /\ pre = <<dirs, files>>
    /\ pc = "main"
    /\ exit_code = -1
    /\ df = NoTable
    /\ doc = NoDoc
    /\ html = NoHtml
    /\ trace = <<>>
    /\ history = [runs |-> 0,
                  last |-> [cmd |-> "none", exit_code |-> -1],
                  log |-> [p \in {RootLog, DirLog} |->
                             IF Exists(F, p) THEN F[p].lines ELSE <<>>]]
    /\ target = NoPath
    /\ table = NoTable
    /\ ret = NoCall

With(F, p, c) == IF p = NoPath THEN F ELSE [F EXCEPT ![p] = c]

InitQc ==
    \E c \in QcInputs, log \in LogChoices, extra \in SUBSET {<<"out">>, <<"logs">>} :
        StageStart("qc",
                   [input_file |-> DataIn, output_file |-> QcOut, log_file |-> log[1]],
                   With(With(NoStageFiles, DataIn, c), log[1], log[2]), extra, TRUE)

InitAnalyze ==
    \E c \in AnalyzeInputs, log \in LogChoices, extra \in SUBSET {<<"results">>, <<"logs">>} :
        StageStart("analyze",
                   [input_file |-> QcOut, output_file |-> ResOut, log_file |-> log[1]],
                   With(With(NoStageFiles, QcOut, c), log[1], log[2]), extra, TRUE)

InitReport ==
    \E c \in ReportInputs, m \in MetadataInputs, plots \in {NoPath, SidePlot, DirPlot},
       extra \in SUBSET {<<"report">>, <<"plots">>}, mpl \in BOOLEAN :
        StageStart("report",
                   [input_file |-> ResOut, output_html |-> HtmlOut,
                    output_plots |-> plots, project_name |-> "demo"],
                   With(With(NoStageFiles, ResOut, c), ResJson, m), extra, mpl)

InitStage ==
    \/ InitQc
    \/ InitAnalyze
    \/ InitReport
    \/ StageStart("all", [help_only |-> FALSE], NoStageFiles, {}, TRUE)

NextStage ==
    \/ Main
    \/ QcValidate \/ QcLoad \/ QcCompute \/ QcMkdir \/ QcWrite \/ QcLog
    \/ AnLoad \/ AnGate \/ AnCompute \/ AnMkdir \/ AnWriteJson \/ AnWriteTsv \/ AnLog
    \/ AllPrint
    \/ RpLoad \/ RpMetadata \/ RpRender \/ RpMkdir \/ RpWriteHtml \/ RpPlots
    \/ PlotImport \/ PlotDraw \/ PlotMkdir \/ PlotSavefig \/ PlotTouch
    \/ KeyboardInterrupt

SpecStage == InitStage /\ [][NextStage]_vars

(***************************************************************************)
(* The qc and analyze stages run one after the other, as the pipeline      *)
(* runs them: each invocation is a new process in the file system the      *)
(* invocations before it left, with the output of qc the input of analyze  *)
(* and the log file, when one is given, shared.                            *)
(***************************************************************************)
CommandLine(c, log_file) ==
    IF c = "qc"
    THEN [input_file |-> DataIn, output_file |-> QcOut, log_file |-> log_file]
    ELSE [input_file |-> QcOut, output_file |-> ResOut, log_file |-> log_file]

\* The first invocation: a table with nothing missing, one with everything
\* missing or no table as the input of qc; no document, one qc would not
\* write or one it could have written as the input of analyze; the log in the
\* working directory new or with a line in it.
InitPipeline ==
    \E c \in {"qc", "analyze"}, log_file \in {NoPath, RootLog, DirLog},
       data \in {Absent, to_csv(DataFrame(<<ColA>>, << <<Str(TextX)>> >>), TAB, FALSE),
                 to_csv(DataFrame(<<ColA>>, << <<NaN>> >>), TAB, FALSE)},
       qc_data \in {Absent} \cup {Json(d) : d \in QcDocs},
       old \in {Absent, OldLog}, extra \in SUBSET {<<"logs">>} :
        StageStart(c, CommandLine(c, log_file),
                   With(With(With(NoStageFiles, DataIn, data), QcOut, qc_data), RootLog, old),
                   extra, TRUE)

\* The process has ended and the next one starts: main is entered with a new
\* command line, in the file system as it is.  history takes the invocation
\* that ended: its command and exit status, and, when it returned and had a
\* log file, the line it had to append to it.
Invoke ==
    /\ pc \in {"done", "failed"}
    /\ cmd \in {"qc", "analyze"}
    /\ history.runs + 1 < MaxRuns
    /\ \E c \in {"qc", "analyze"}, log_file \in {NoPath, RootLog, DirLog} :
          /\ cmd' = c
          /\ args' = CommandLine(c, log_file)
    /\ pc' = "main"
    /\ exit_code' = -1
    /\ df' = NoTable
    /\ doc' = NoDoc
    /\ html' = NoHtml
    /\ trace' = <<>>
    /\ pre' = <<dirs, files>>
    /\ history' =
          [runs |-> history.runs + 1,
           last |-> [cmd |-> cmd, exit_code |-> exit_code],
           log |-> IF exit_code = 0 /\ Truthy(args.log_file)
                   THEN [history.log EXCEPT ![args.log_file] =
                            Append(@, IF cmd = "qc" THEN QcLogLine(doc)
                                      ELSE AnalysisLogLine(doc))]
                   ELSE history.log]
    /\ UNCHANGED <<dirs, files, utilVars, matplotlib>>

SpecPipeline ==
    /\ InitPipeline
    /\ [][\/ Main
          \/ QcValidate \/ QcLoad \/ QcCompute \/ QcMkdir \/ QcWrite \/ QcLog
          \/ AnLoad \/ AnGate \/ AnCompute \/ AnMkdir \/ AnWriteJson \/ AnWriteTsv \/ AnLog
          \/ KeyboardInterrupt
          \/ Invoke]_vars

(***************************************************************************)
(* The report renderer on its own: generate_html_report applied to a       *)
(* table, a metadata document and a title.                                 *)
(***************************************************************************)
\* Tables of n rows whose rows can be told apart: row i holds the text of i,
\* or of n + 1 - i.
ReportTables ==
    UNION { { DataFrame(cols, [i \in 1..n |-> [j \in 1..Len(cols) |-> Str(<<ToString(i)>>)]]),
              DataFrame(cols, [i \in 1..n |-> [j \in 1..Len(cols) |-> Str(<<ToString(n + 1 - i)>>)]]) } :
            cols \in ColumnLists, n \in 0..MaxReportRows }

MetadataDocs == { NoDoc, analysis_results(QcOut), [analysis_type |-> "standard"] }

InitRender ==
    /\ cmd = "render"
    /\ pc = "render"
    /\ df \in ReportTables
    /\ doc \in MetadataDocs
    /\ args = [project_name |-> "demo"]
    /\ html = NoHtml
    /\ exit_code = -1
    /\ trace = <<>>
    /\ matplotlib = TRUE
    /\ history = [runs |-> 0, last |-> [cmd |-> "none", exit_code |-> -1], log |-> <<>>]
    /\ files = NoStageFiles
    /\ dirs = {Root}
    /\ pre = <<dirs, files>>
    /\ target = NoPath
    /\ table = NoTable
    /\ ret = NoCall

Render ==
    /\ pc = "render"
    /\ html' = generate_html_report(df, doc, args.project_name)
    /\ pc' = "rendered"
    /\ UNCHANGED <<dirs, files, pre, utilVars, history, cmd, args, exit_code, df, doc,
                   trace, matplotlib>>

SpecRender == InitRender /\ [][Render]_vars

(***************************************************************************)
(* Properties of the file utilities.                                       *)
(***************************************************************************)
WasMissing == ~Exists(pre[2], target)

WasZeroBytes == Exists(pre[2], target) /\ Size(pre[2][target]) = 0

Readers == {"validate_input_file", "safe_read_json", "safe_read_table"}

\* C1: on a path that does not exist, validate_input_file, safe_read_json and
\* safe_read_table each raise FileNotFoundError; on a zero-byte file
\* validate_input_file raises the "Input file is empty" ValueError and the two
\* readers raise too; nothing is returned and the file system is left as it was.
C1_ReadersFailFast ==
    ret.op \in Readers =>
        /\ WasMissing =>
              /\ ret.out.raised
              /\ ret.out.exc.type = "FileNotFoundError"
        /\ WasZeroBytes =>
              /\ ret.out.raised
              /\ ret.op = "validate_input_file" =>
                    ret.out.exc = Exc("ValueError", "Input file is empty")
        /\ (WasMissing \/ WasZeroBytes) => <<dirs, files>> = pre

C1_Witness ==
    /\ ret.op = "validate_input_file"
    /\ WasZeroBytes
    /\ ret.out.raised
    /\ ret.out.exc.msg = "Input file is empty"

IsTabularPath(p) == EndsWith(p, ".tsv") \/ EndsWith(p, ".csv")

\* The header of the file at the path, read with the delimiter of its extension.
HeaderRead == read_csv_nrows(files[target], IF EndsWith(target, ".tsv") THEN TAB ELSE COMMA, 1)

ValidatedTable ==
    /\ ret.op = "validate_input_file"
    /\ ret.args # <<>>
    /\ Exists(files, target)
    /\ Size(files[target]) > 0
    /\ IsTabularPath(target)
    /\ ~HeaderRead.raised

\* C2: for an existing non-empty .tsv/.csv file that parses, with header
\* columns H, and a non-empty required_columns R, validate_input_file returns
\* iff R is a subset of H, and otherwise raises the ValueError that carries
\* "Missing required columns" with exactly the names R \ H.
C2_MissingColumns ==
    ValidatedTable =>
        LET H == Range(HeaderRead.val.columns)
            R == Range(ret.args)
        IN  /\ ~ret.out.raised <=> R \subseteq H
            /\ ret.out.raised =>
                  /\ ret.out.exc.type = "ValueError"
                  /\ ret.out.exc.cause.msg = "Missing required columns"
                  /\ ret.out.exc.cause.names = R \ H

C2_Witness ==
    /\ ValidatedTable
    /\ Range(HeaderRead.val.columns) = {ColA, ColB, ColC}
    /\ ret.args = <<ColB, ColD>>
    /\ ret.out.raised
    /\ ret.out.exc.cause.names = {ColD}

BaseKeys == {"exists", "size_bytes", "is_empty", "extension", "name", "parent"}

TableKeys == {"n_rows", "n_columns", "columns"}

\* C9: get_file_info never raises; for a missing path it returns exactly
\* {exists: False}; for an existing one the six base fields; for a non-empty
\* file with extension .tsv or .csv either the three table fields (the table
\* parses) or table_read_error: True (it does not), never both; for an empty
\* file or another extension neither.
C9_FileInfo ==
    ret.op = "get_file_info" =>
        /\ ~ret.out.raised
        /\ LET info == ret.out.val
               keys == DOMAIN info
               c == files[target]
               parsed == read_csv(c, IF target.ext = ".tsv" THEN TAB ELSE COMMA)
           IN  IF ~Exists(files, target) THEN info = [exists |-> FALSE]
               ELSE /\ BaseKeys \subseteq keys
                    /\ info.exists = TRUE
                    /\ info.size_bytes = Size(c)
                    /\ info.is_empty = (Size(c) = 0)
                    /\ info.extension = target.ext
                    /\ info.name = <<target.stem, target.ext>>
                    /\ info.parent = target.dir
                    /\ IF target.ext \in {".tsv", ".csv"} /\ Size(c) > 0
                       THEN \/ /\ keys = BaseKeys \cup TableKeys
                               /\ ~parsed.raised
                               /\ info.n_rows = Len(parsed.val.rows)
                               /\ info.n_columns = Len(parsed.val.columns)
                               /\ info.columns = parsed.val.columns
                            \/ /\ keys = BaseKeys \cup {"table_read_error"}
                               /\ info.table_read_error = TRUE
                               /\ parsed.raised
                       ELSE keys = BaseKeys

C9_Witness ==
    /\ ret.op = "get_file_info"
    /\ target.ext = ".csv"
    /\ Size(files[target]) > 0
    /\ ~ret.out.raised
    /\ "table_read_error" \in DOMAIN ret.out.val

\* A table was written with the delimiter left to the extension.
WroteInferred ==
    /\ ret.op = "safe_write_table"
    /\ ~ret.out.raised
    /\ ret.args = NoKwargs

RoundTrips(kwargs) ==
    LET r == safe_read_table(files, target, kwargs)
    IN  /\ ~r.raised
        /\ r.val = table
        /\ safe_write_table(dirs, files, r.val, target, kwargs).files = files

\* The header line of the file separates the column names with sep alone.
HeaderSeparatedBy(sep) ==
    files[target].lines[1] = JoinFields(table.columns, sep)

\* C10 as stated: for every path and every table with unique column names,
\* safe_write_table then safe_read_table, no delimiter given, use the tab iff
\* the path ends with .tsv and the comma otherwise, the table read equals the
\* table written, and writing it back leaves the file unchanged.
C10_RoundTripAnyTable ==
    WroteInferred =>
        /\ HeaderSeparatedBy(IF EndsWith(target, ".tsv") THEN TAB ELSE COMMA)
        /\ RoundTrips(NoKwargs)

\* The tables the text keeps apart: at least one column, and no cell that is
\* the empty text or an NA marker (a missing cell is read back missing).
Faithful(frame) ==
    /\ frame.columns # <<>>
    /\ \A i \in 1..Len(frame.rows) : \A j \in 1..Len(frame.columns) :
          frame.rows[i][j].na \/ frame.rows[i][j].text \notin NAValues

\* C10 amended: the round trip holds for the tables with at least one column
\* whose cells are missing or a text the reader gives back unchanged; and a
\* delimiter passed as sep is the one written and the one read, whatever the
\* extension.
C10_RoundTrip ==
    /\ (WroteInferred /\ Faithful(table)) =>
          /\ HeaderSeparatedBy(IF EndsWith(target, ".tsv") THEN TAB ELSE COMMA)
          /\ RoundTrips(NoKwargs)
    /\ (ret.op = "safe_write_table" /\ "sep" \in DOMAIN ret.args /\ Faithful(table)) =>
          /\ HeaderSeparatedBy(ret.args["sep"])
          /\ RoundTrips(ret.args)

C10_Witness ==
    /\ WroteInferred
    /\ EndsWith(target, ".tsv")
    /\ table.columns = <<ColA, ColB>>
    /\ Len(table.rows) = 2
    /\ table.rows[1][1] = Str(<<"x", TAB, "y">>)
    /\ table.rows[2][1] = NaN
    /\ RoundTrips(NoKwargs)

(***************************************************************************)
(* Properties of the workflow stages.                                      *)
(***************************************************************************)
Terminal == pc \in {"done", "failed"}

Steps == {trace[i].step : i \in 1..Len(trace)}

Interrupted == "interrupt" \in Steps

IsStage == cmd \in {"qc", "analyze", "report"}

\* The input of the stage was missing or zero bytes long when it started.
InputBad ==
    \/ ~Exists(pre[2], args.input_file)
    \/ Size(pre[2][args.input_file]) = 0

\* validate -> load -> compute -> persist -> log append.
Rank(s) ==
    CASE s.phase = "validate" -> 1
      [] s.phase = "load" -> 2
      [] s.phase = "compute" -> 3
      [] s.phase \in {"write", "plot"} -> 4
      [] s.phase = "log" -> 5
      [] OTHER -> 6

InOrder == \A i, j \in 1..Len(trace) : i < j => Rank(trace[i]) <= Rank(trace[j])

\* The steps that open an output file of the stage for writing.
OutputOpens == {"write_output", "write_json", "savefig", "touch"}

\* C3: whenever a stage opens one of its output files for writing, the parent
\* directory of the file exists (it was made before): no such open fails for
\* a directory that does not exist.
C3_ParentExistsAtOpen ==
    \A i \in 1..Len(trace) :
        trace[i].step \in OutputOpens => trace[i].err # "FileNotFoundError"

\* C4 as stated: each of qc, analyze and report runs the File Validator first
\* and its steps in the order validate, load, compute, persist, log; on a
\* missing or zero-byte input the stage fails without loading the input and
\* without writing anything.
C4_EveryStageValidatesFirst ==
    IsStage =>
        /\ trace # <<>> => trace[1].step \in {"validate", "interrupt"}
        /\ InOrder
        /\ (InputBad /\ Terminal) =>
              /\ pc = "failed"
              /\ "load" \notin Steps
              /\ <<dirs, files>> = pre

FailedAt(step) == trace = <<Step(step, step, trace[1].err)>> /\ trace[1].err # None

\* C4 amended: qc runs the File Validator before it loads its input; analyze
\* and report have no validation step and begin with the load.  In all three
\* the steps run in the order (validate,) load, compute, persist, log, and a
\* missing or zero-byte input ends the stage failed with exit status 1 at its
\* first step (the validation of qc, the load of analyze and report), nothing
\* written.
C4_ValidateOrLoadFirst ==
    IsStage =>
        LET first == IF cmd = "qc" THEN "validate" ELSE "load"
        IN  /\ trace # <<>> => trace[1].step \in {first, "interrupt"}
            /\ cmd # "qc" => "validate" \notin Steps
            /\ (cmd = "qc" /\ "load" \in Steps) => trace[1] = Step("validate", "validate", None)
            /\ InOrder
            /\ (InputBad /\ Terminal) =>
                  /\ pc = "failed"
                  /\ exit_code = 1
                  /\ FailedAt(first) \/ FailedAt("interrupt")
                  /\ <<dirs, files>> = pre

C4_Witness ==
    /\ cmd = "analyze"
    /\ Exists(pre[2], args.input_file)
    /\ InputBad
    /\ pc = "failed"
    /\ FailedAt("load")

ExitMatchesState ==
    /\ exit_code = -1 <=> ~Terminal
    /\ exit_code = 0 <=> pc = "done"
    /\ exit_code = 1 <=> pc = "failed"

NoStepTwice == \A i, j \in 1..Len(trace) : i < j => trace[i].step # trace[j].step

\* C5 as stated: a process ends done with exit status 0 or failed with exit
\* status 1; exit status 0 only if every step succeeded; an error raised in a
\* validation, load, compute, write or log step, or an interrupt, ends the
\* process at once with exit status 1; no step runs twice.
C5_AnyErrorExitsOne ==
    cmd # "none" /\ cmd # "render" =>
        /\ ExitMatchesState
        /\ NoStepTwice
        /\ \A i \in 1..Len(trace) :
              (trace[i].err # None /\ trace[i].phase # "plot") =>
                  /\ i = Len(trace)
                  /\ pc = "failed"
                  /\ exit_code = 1

\* The steps of create_analysis_plots inside its try block.
PlotSteps == {"import_matplotlib", "draw", "savefig"}

\* C5 amended: as stated, except for the errors raised inside the plot
\* generation of the report stage (the import of the plotting library, the
\* drawing, the saving of the figure): these are caught, the one step that
\* follows is the writing of the empty placeholder, and the process ends with
\* exit status 0 if that succeeds and 1 if it raises.
C5_ErrorExitsOneButPlots ==
    cmd # "none" /\ cmd # "render" =>
        /\ ExitMatchesState
        /\ NoStepTwice
        /\ pc = "failed" => trace # <<>> /\ trace[Len(trace)].err # None
        /\ \A i \in 1..Len(trace) :
              trace[i].err # None =>
                  IF trace[i].step \in PlotSteps
                  THEN /\ pc # "done" \/ Len(trace) = i + 1
                       /\ i < Len(trace) =>
                             /\ Len(trace) = i + 1
                             /\ trace[i + 1].step \in {"touch", "interrupt"}
                  ELSE /\ i = Len(trace)
                       /\ pc = "failed"
                       /\ exit_code = 1

C5_Witness ==
    /\ cmd = "report"
    /\ pc = "done"
    /\ exit_code = 0
    /\ Len(trace) >= 2
    /\ trace[Len(trace) - 1] = Step("savefig", "write", "OSError")
    /\ trace[Len(trace)] = Step("touch", "write", None)

\* The table the qc stage was given, as read_csv reads it.
QcInput == read_csv(pre[2][args.input_file], TAB).val

QcCells == {ij \in (1..Len(QcInput.rows)) \X (1..Len(QcInput.columns)) : TRUE}

QcMissing == {ij \in QcCells : QcInput.rows[ij[1]][ij[2]].na}

\* C6: for an input of at least one cell the qc stage writes a document whose
\* qc_status is PASS when at most half of the cells are missing (exactly half
\* included) and WARNING, with a warning message, when more than half are;
\* the warning key is there iff the status is WARNING.
C6_QcStatus ==
    (cmd = "qc" /\ pc = "done" /\ QcCells # {}) =>
        LET out == files[args.output_file]
        IN  /\ out.kind = "json"
            /\ 2 * Cardinality(QcMissing) <= Cardinality(QcCells) =>
                  out.doc.qc_status = "PASS"
            /\ 2 * Cardinality(QcMissing) > Cardinality(QcCells) =>
                  /\ out.doc.qc_status = "WARNING"
                  /\ "warning" \in DOMAIN out.doc
                  /\ out.doc.warning # <<>>
            /\ "warning" \in DOMAIN out.doc <=> out.doc.qc_status = "WARNING"

C6_Witness ==
    /\ cmd = "qc"
    /\ pc = "done"
    /\ Cardinality(QcCells) = 4
    /\ Cardinality(QcMissing) = 2
    /\ files[args.output_file].doc.qc_status = "PASS"

\* C7: when the report stage is asked for plots and the plotting library is
\* unavailable, the stage ends done with exit status 0 and an empty
\* placeholder at the plot path, whatever the plot path.
C7_PlaceholderAlways ==
    (cmd = "report" /\ ~matplotlib /\ "import_matplotlib" \in Steps
        /\ Terminal /\ ~Interrupted) =>
        /\ pc = "done"
        /\ exit_code = 0
        /\ files[args.output_plots] = EmptyFile

(***************************************************************************)
(* Properties of the report renderer.                                      *)
(***************************************************************************)
HeaderRows == SelectSeq(html.table, LAMBDA r : r.tag = "th")

DataRows == SelectSeq(html.table, LAMBDA r : r.tag = "td")

FirstRowsInOrder(k) ==
    /\ Len(DataRows) = k
    /\ \A i \in 1..k :
          DataRows[i].cells = [j \in 1..Len(df.columns) |-> df.rows[i][j].text]

HeaderThenData ==
    \A i \in 1..Len(html.table) : html.table[i].tag = "th" => i = 1

\* C8 as stated: the page reports "Total Results: n"; its table has one
\* header row listing the columns exactly when there are columns (also when
\* n = 0), and the first min(n, 10) rows of the table, in order.
C8_HeaderIffColumns ==
    pc = "rendered" =>
        /\ html.total = Len(df.rows)
        /\ HeaderThenData
        /\ IF df.columns # <<>>
           THEN HeaderRows = <<[tag |-> "th", cells |-> df.columns]>>
           ELSE HeaderRows = <<>>
        /\ FirstRowsInOrder(Min(Len(df.rows), 10))

\* C8 amended: the page reports "Total Results: n"; when the table has at
\* least one row and one column, its table has one header row listing the
\* columns, then the first min(n, 10) rows in order; when it has no row or no
\* column, the table of the page is empty: no header row and no data row.
C8_HeaderIffNotEmpty ==
    pc = "rendered" =>
        /\ html.total = Len(df.rows)
        /\ HeaderThenData
        /\ IF df.columns # <<>> /\ df.rows # <<>>
           THEN /\ HeaderRows = <<[tag |-> "th", cells |-> df.columns]>>
                /\ FirstRowsInOrder(Min(Len(df.rows), 10))
           ELSE html.table = <<>>

C8_Witness ==
    /\ pc = "rendered"
    /\ Len(df.rows) = 11
    /\ df.columns = <<ColA, ColB>>
    /\ df.rows[1][1] = Str(<<"11">>)
    /\ Len(DataRows) = 10
    /\ DataRows[10].cells = << <<"2">>, <<"2">> >>

(***************************************************************************)
(* Properties of the stages run one after the other.                       *)
(***************************************************************************)
LogLines(F, p) == IF Exists(F, p) THEN F[p].lines ELSE <<>>

Appended(p) == LogLines(files, p) # LogLines(pre[2], p)

Succeeded(step) == \E i \in 1..Len(trace) : trace[i].step = step /\ trace[i].err = None

\* Every output file of the invocation has been written.
OutputsWritten ==
    IF cmd = "qc"
    THEN /\ Succeeded("write_output")
         /\ files[args.output_file] = Json(doc)
    ELSE /\ Succeeded("write_json")
         /\ Succeeded("write_output")
         /\ files[with_suffix(args.output_file, ".json")] = Json(doc)
         /\ files[args.output_file].kind = "text"

\* The line a qc or analyze invocation writes to the log.
IsLogLine(line) ==
    IF cmd = "qc"
    THEN line \in {<<"QC completed: ", "PASS">>, <<"QC completed: ", "WARNING">>}
    ELSE line = <<"Analysis completed: ", "42", " significant results">>

\* The invocation ended failed at a validation, load, compute or output write.
FailedBeforeLog ==
    /\ pc = "failed"
    /\ trace # <<>>
    /\ trace[Len(trace)].err # None
    /\ trace[Len(trace)].phase \in {"validate", "load", "compute", "write"}

\* C11: over qc and analyze invocations run one after the other, with a log
\* file that is a file of its own (not an input or output of a stage): the
\* log an invocation finds is the log as it first was followed by one line
\* for each earlier invocation that returned and was given this log, in the
\* order they ran; the invocation leaves the lines it finds as they are and
\* appends at most one line, to the log it was given, after all its outputs
\* are written; one that failed in validation, load, compute or an output
\* write has appended nothing; one that returned and was given a log has
\* appended exactly one line.
C11_LogAppendOnly ==
    cmd \in {"qc", "analyze"} =>
        \A p \in {RootLog, DirLog} :
            LET found == LogLines(pre[2], p)
                now == LogLines(files, p)
            IN  /\ found = history.log[p]
                /\ \/ now = found
                   \/ /\ Len(now) = Len(found) + 1
                      /\ SubSeq(now, 1, Len(found)) = found
                      /\ IsLogLine(now[Len(now)])
                /\ Appended(p) => p = args.log_file /\ OutputsWritten
                /\ Exists(files, p) <=> Exists(pre[2], p) \/ Appended(p)
                /\ FailedBeforeLog => ~Appended(p)
                /\ pc = "done" => (Appended(p) <=> p = args.log_file)

C11_Witness ==
    /\ history.runs = 1
    /\ history.last = [cmd |-> "qc", exit_code |-> 0]
    /\ cmd = "analyze"
    /\ pc = "done"
    /\ files[RootLog] = Text(<< <<"QC completed: ", "PASS">>,
                                <<"QC completed: ", "WARNING">>,
                                <<"Analysis completed: ", "42", " significant results">> >>)

\* The document the analyze invocation was given, when it is one.
GivenDoc == pre[2][args.input_file]

GateOpen ==
    /\ GivenDoc.kind = "json"
    /\ "qc_status" \in DOMAIN GivenDoc.doc
    /\ GivenDoc.doc.qc_status \in {"PASS", "WARNING"}

\* C12: an analyze invocation changes the file system (makes a directory,
\* writes the result document or the result table, appends to the log) only
\* if the qc_status of the document it was given is PASS or WARNING; given a
\* document with another status or without qc_status it ends failed with exit
\* status 1 and the file system as it found it.  A qc invocation that returns
\* has written a document whose qc_status is PASS or WARNING, and the analyze
\* invocation that runs next loads it and passes the gate.
C12_AnalyzeGated ==
    /\ cmd = "analyze" =>
          /\ <<dirs, files>> # pre => GateOpen
          /\ (GivenDoc.kind = "json" /\ ~GateOpen /\ Terminal) =>
                /\ pc = "failed"
                /\ exit_code = 1
                /\ <<dirs, files>> = pre
          /\ (GivenDoc.kind = "json" /\ ~GateOpen /\ Terminal /\ ~Interrupted) =>
                /\ Len(trace) = 2
                /\ trace[2].step = "gate"
                /\ trace[2].err \in {"ValueError", "KeyError"}
          /\ history.last = [cmd |-> "qc", exit_code |-> 0] =>
                /\ GateOpen
                /\ \A i \in 1..Len(trace) :
                      trace[i].step \in {"load", "gate"} => trace[i].err = None
    /\ (cmd = "qc" /\ pc = "done") =>
          /\ files[args.output_file].kind = "json"
          /\ files[args.output_file].doc.qc_status \in {"PASS", "WARNING"}

C12_Witness ==
    /\ cmd = "analyze"
    /\ history.last = [cmd |-> "qc", exit_code |-> 0]
    /\ GivenDoc.doc.qc_status = "WARNING"
    /\ Succeeded("gate")
    /\ pc = "done"
    /\ files[args.output_file] = to_csv(results_df, TAB, FALSE)

====
